---- MODULE Spec2Model ----
(***************************************************************************)
(* PPP over Any Transport -- UDP transport (src/modules/udp.c).            *)
(*                                                                         *)
(* The module's three entry points, module_udp_init, module_udp_run and    *)
(* module_udp_fini, as one state machine.  Every system call and every     *)
(* call to a helper outside the file (pppoat_alloc, getaddrinfo, socket,   *)
(* bind, pppoat_util_select, read, sendto, recv, pppoat_util_write, ...)   *)
(* is a step whose outcome is chosen nondeterministically.                 *)
(***************************************************************************)
EXTENDS Integers, Sequences, FiniteSets, TLC

(***************************************************************************)
(* Bounds of the model.                                                    *)
(***************************************************************************)
\* longest chunk a read() or recv() returns (the code's limit is sizeof(buf))
MaxLen == 2
\* most iterations of the main loop of module_udp_run
MaxIter == 2
\* most transient failures (EINTR, EAGAIN) of sendto within one udp_buf_send
MaxTransient == 2

\* the values a byte takes
Byte == {0, 1}

(***************************************************************************)
(* Program constants.                                                      *)
(***************************************************************************)
UDP_PORT_MASTER == 49153
UDP_PORT_SLAVE == 49153
UDP_HOST_MASTER == "192.168.4.1"
UDP_HOST_SLAVE == "192.168.4.10"

PPPOAT_NODE_MASTER == "MASTER"
PPPOAT_NODE_SLAVE == "SLAVE"

\* errno values (Linux)
EINTR == 4
EAGAIN == 11
EWOULDBLOCK == EAGAIN
EPIPE == 32
ENOMEM == 12
ENOPROTOOPT == 92
\* representatives of the other errno values each call can leave
EMFILE == 24
EADDRINUSE == 98
EBADF == 9
EIO == 5
EMSGSIZE == 90
ECONNREFUSED == 111
ENOSPC == 28

\* the descriptors of module_udp_run
RD == "rd"
SOCK == "sock"

\* the NULL address list, and the list getaddrinfo() gives for (host, port)
NULL == <<>>
AddrList(host, port) == <<[host |-> host, port |-> port]>>

\* P_ERR(x) records the error for tracing and has the value x
P_ERR(x) == x

VARIABLES
    pc,         \* the statement the program is at
    opt,        \* init: value of the "server" option, pppoat_conf_get's result
    type,       \* init: local type
    sport,      \* init: local sport
    dport,      \* init: local dport
    dhost,      \* init: local dhost
    ctx,        \* init: local ctx ("uninit", "NULL" or "ctx")
    uc_type,    \* ctx->uc_type
    uc_ainfo,   \* ctx->uc_ainfo
    uc_sock,    \* ctx->uc_sock ("uninit", "invalid" or "fd")
    bound,      \* whether bind() has given the socket its local address
    ainfo,      \* udp_sock_new: local ainfo
    userdata,   \* *userdata ("unset" or "ctx")
    res,        \* per resource, how often it was acquired and released
    rc,         \* local rc of module_udp_init / module_udp_run
    rc2,        \* local rc of udp_sock_new / udp_buf_send
    nonblock,   \* the descriptors that have been set non-blocking
    rfds,       \* run: the descriptors set in rfds
    buf,        \* run: the bytes of buf that the last read or recv filled
    len,        \* run: local len
    off,        \* udp_buf_send: how far its buf pointer has advanced
    slen,       \* udp_buf_send: its len parameter
    tries,      \* transient sendto failures within this udp_buf_send
    iter,       \* iterations of the main loop started
    log,        \* the I/O calls of run's current iteration, in order
    retval      \* what the last entry point returned (<<>> before, <<r>> after it returned r)

initLocals == <<opt, type, sport, dport, dhost, ctx, ainfo>>
ctxFields == <<uc_type, uc_ainfo, uc_sock>>
runLocals == <<rfds, buf, len, iter>>
sendLocals == <<off, slen, tries>>
vars == <<pc, initLocals, ctxFields, bound, nonblock, userdata, res, rc, rc2, runLocals,
          sendLocals, log, retval>>

Resources == {"ctx", "remote", "local", "socket"}

Acquire(r) == [res EXCEPT ![r].acq = @ + 1]
Release(r) == [res EXCEPT ![r].rel = @ + 1]
Held(r) == res[r].acq > res[r].rel

\* the values of the "server" option: absent (pppoat_conf_get gives NULL) or a string
ServerOpts == {"absent", "true", "1", "false", "0"}

Init ==
    /\ pc = "init_select"
    /\ opt \in ServerOpts
    /\ type = "uninit" /\ sport = 0 /\ dport = 0 /\ dhost = ""
    /\ ctx = "uninit"
    /\ uc_type = "uninit" /\ uc_ainfo = NULL /\ uc_sock = "uninit"
    /\ ainfo = NULL
    /\ bound = FALSE
    /\ nonblock = {}
    /\ userdata = "unset"
    /\ res = [r \in Resources |-> [acq |-> 0, rel |-> 0]]
    /\ rc = 0 /\ rc2 = 0
    /\ rfds = {} /\ buf = <<>> /\ len = 0
    /\ off = 0 /\ slen = 0 /\ tries = 0
    /\ iter = 0
    /\ log = <<>>
    /\ retval = <<>>

(***************************************************************************)
(* module_udp_init, udp_ainfo_get, udp_sock_new                            *)
(***************************************************************************)

\* pppoat_conf_obj_is_true: the strings the configuration takes as true
pppoat_conf_obj_is_true(o) == o \in {"true", "1"}

\* lines 116-117
NodeType(o) ==
    IF o # "absent" /\ pppoat_conf_obj_is_true(o)
    THEN PPPOAT_NODE_MASTER ELSE PPPOAT_NODE_SLAVE

\* lines 120-128 with the two remote hosts exchanged
EndpointsSwapped(t) ==
    IF t = PPPOAT_NODE_MASTER
    THEN [sport |-> UDP_PORT_MASTER, dport |-> UDP_PORT_SLAVE, dhost |-> UDP_HOST_MASTER]
    ELSE [sport |-> UDP_PORT_SLAVE, dport |-> UDP_PORT_MASTER, dhost |-> UDP_HOST_SLAVE]

\* lines 120-128
Endpoints(t) ==
    IF t = PPPOAT_NODE_MASTER
    THEN [sport |-> UDP_PORT_MASTER, dport |-> UDP_PORT_SLAVE, dhost |-> UDP_HOST_SLAVE]
    ELSE [sport |-> UDP_PORT_SLAVE, dport |-> UDP_PORT_MASTER, dhost |-> UDP_HOST_MASTER]

\* udp_ainfo_get: ok is whether getaddrinfo() succeeds
udp_ainfo_get(host, port, ok) ==
    IF ok THEN [rc |-> 0, ainfo |-> AddrList(host, port)]
    ELSE [rc |-> P_ERR(-ENOPROTOOPT), ainfo |-> NULL]

\* lines 115-128
InitSelect ==
    /\ pc = "init_select"
    /\ type' = NodeType(opt)
    /\ sport' = Endpoints(NodeType(opt)).sport
    /\ dport' = Endpoints(NodeType(opt)).dport
    /\ dhost' = Endpoints(NodeType(opt)).dhost
    /\ pc' = "init_alloc"
    /\ UNCHANGED <<bound, nonblock, opt, ctx, ainfo, ctxFields, userdata, res, rc, rc2,
                   runLocals, sendLocals, log, retval>>

\* lines 130-132
InitAlloc ==
    /\ pc = "init_alloc"
    /\ \E ok \in BOOLEAN :
        /\ ctx' = IF ok THEN "ctx" ELSE "NULL"
        /\ res' = IF ok THEN Acquire("ctx") ELSE res
        /\ rc' = IF ok THEN 0 ELSE P_ERR(-ENOMEM)
        /\ pc' = IF ok THEN "init_ainfo" ELSE "init_ret"
    /\ UNCHANGED <<bound, nonblock, opt, type, sport, dport, dhost, ainfo, ctxFields, userdata,
                   rc2, runLocals, sendLocals, log, retval>>

\* lines 133-135: the remote address; udp_sock_new is called only if rc = 0
InitAinfoGet ==
    /\ pc = "init_ainfo"
    /\ \E ok \in BOOLEAN :
        LET r == udp_ainfo_get(dhost, dport, ok) IN
        /\ uc_type' = type
        /\ uc_ainfo' = r.ainfo
        /\ res' = IF ok THEN Acquire("remote") ELSE res
        /\ rc' = r.rc
        /\ pc' = IF r.rc = 0 THEN "sock_ainfo" ELSE "init_unwind"
    /\ UNCHANGED <<bound, nonblock, initLocals, uc_sock, userdata, rc2, runLocals, sendLocals,
                   log, retval>>

\* line 87: the local wildcard address (host = NULL)
SockAinfoGet ==
    /\ pc = "sock_ainfo"
    /\ \E ok \in BOOLEAN :
        LET r == udp_ainfo_get("", sport, ok) IN
        /\ ainfo' = r.ainfo
        /\ res' = IF ok THEN Acquire("local") ELSE res
        /\ rc2' = r.rc
        /\ pc' = IF r.rc = 0 THEN "sock_socket" ELSE "sock_put"
    /\ UNCHANGED <<bound, nonblock, opt, type, sport, dport, dhost, ctx, ctxFields, userdata,
                   rc, runLocals, sendLocals, log, retval>>

\* lines 88-92
SockSocket ==
    /\ pc = "sock_socket"
    /\ \E ok \in BOOLEAN :
        /\ uc_sock' = IF ok THEN "fd" ELSE "invalid"
        /\ res' = IF ok THEN Acquire("socket") ELSE res
        /\ rc2' = IF ok THEN 0 ELSE P_ERR(-EMFILE)
        /\ pc' = IF ok THEN "sock_bind" ELSE "sock_put"
    /\ UNCHANGED <<bound, nonblock, initLocals, uc_type, uc_ainfo, userdata, rc, runLocals,
                   sendLocals, log, retval>>

\* lines 93-98 without the close() of line 97
SockBindNoClose ==
    /\ pc = "sock_bind"
    /\ \E ok \in BOOLEAN :
        /\ rc2' = IF ok THEN 0 ELSE P_ERR(-EADDRINUSE)
        /\ bound' = ok
        /\ nonblock' = nonblock
        /\ res' = res
    /\ pc' = "sock_put"
    /\ UNCHANGED <<initLocals, ctxFields, userdata, rc, runLocals, sendLocals,
                   log, retval>>

\* lines 93-98
SockBind ==
    /\ pc = "sock_bind"
    /\ \E ok \in BOOLEAN :
        /\ rc2' = IF ok THEN 0 ELSE P_ERR(-EADDRINUSE)
        /\ bound' = ok
        /\ nonblock' = nonblock
        /\ res' = IF ok THEN res ELSE Release("socket")
    /\ pc' = "sock_put"
    /\ UNCHANGED <<initLocals, ctxFields, userdata, rc, runLocals, sendLocals,
                   log, retval>>

\* lines 99-102, and line 135 taking the result
SockPut ==
    /\ pc = "sock_put"
    /\ res' = IF ainfo # NULL THEN Release("local") ELSE res
    /\ rc' = rc2
    /\ pc' = IF rc2 # 0 THEN "init_unwind" ELSE "init_ret"
    /\ UNCHANGED <<bound, nonblock, initLocals, ctxFields, userdata, rc2, runLocals, sendLocals,
                   log, retval>>

\* lines 136-140
InitUnwind ==
    /\ pc = "init_unwind"
    /\ res' = [res EXCEPT
                 !["remote"].rel = IF uc_ainfo # NULL THEN @ + 1 ELSE @,
                 !["ctx"].rel = @ + 1]
    /\ pc' = "init_ret"
    /\ UNCHANGED <<bound, nonblock, initLocals, ctxFields, userdata, rc, rc2, runLocals,
                   sendLocals, log, retval>>

\* lines 142-146 without the test of line 142
InitRetAlways ==
    /\ pc = "init_ret"
    /\ userdata' = ctx
    /\ retval' = <<rc>>
    /\ pc' = IF rc = 0 THEN "ready" ELSE "init_failed"
    /\ opt' = "absent" /\ type' = "uninit" /\ sport' = 0 /\ dport' = 0 /\ dhost' = ""
    /\ ctx' = "uninit" /\ ainfo' = NULL
    /\ UNCHANGED <<bound, nonblock, ctxFields, res, rc, rc2, runLocals, sendLocals, log>>

\* lines 142-146; the locals of module_udp_init end with it
InitRet ==
    /\ pc = "init_ret"
    /\ userdata' = IF rc = 0 THEN ctx ELSE userdata
    /\ retval' = <<rc>>
    /\ pc' = IF rc = 0 THEN "ready" ELSE "init_failed"
    /\ opt' = "absent" /\ type' = "uninit" /\ sport' = 0 /\ dport' = 0 /\ dhost' = ""
    /\ ctx' = "uninit" /\ ainfo' = NULL
    /\ UNCHANGED <<bound, nonblock, ctxFields, res, rc, rc2, runLocals, sendLocals, log>>

ModuleUdpInit ==
    \/ InitSelect \/ InitAlloc \/ InitAinfoGet \/ SockAinfoGet \/ SockSocket
    \/ SockBind \/ SockPut \/ InitUnwind \/ InitRet

(***************************************************************************)
(* module_udp_run, udp_buf_send, udp_error_is_recoverable                  *)
(***************************************************************************)

\* one I/O call: its name, what it returned (-errno for a failure), the bytes
\* it was given or has delivered, and for sendto the address list it used
Ev(op, n, data, to) == [op |-> op, n |-> n, data |-> data, to |-> to]

\* the byte strings of length 1 .. MaxLen
Chunks == UNION {[1..n -> Byte] : n \in 1..MaxLen}

\* lines 157-162 without the EINTR case
udp_error_is_recoverable_no_eintr(error) ==
    \/ error = -EAGAIN
    \/ error = -EWOULDBLOCK

\* lines 157-162
udp_error_is_recoverable(error) ==
    \/ error = -EAGAIN
    \/ error = -EINTR
    \/ error = -EWOULDBLOCK

\* line 207 and the closing brace of the loop: the next iteration or the return
LoopTest(r) == IF r = 0 THEN "run_select" ELSE "run_ret"

\* line 224 without the test of rc
SockBranchAlways(r, fds) == IF SOCK \in fds THEN "run_recv" ELSE LoopTest(r)

\* line 224
SockBranch(r, fds) == IF r = 0 /\ SOCK \in fds THEN "run_recv" ELSE LoopTest(r)

\* line 215
LinkBranch(r, fds) == IF RD \in fds THEN "run_read" ELSE SockBranch(r, fds)

\* line 189 as a loop that never repeats
SendLoopOnce(r, l) == "buf_ret"

\* line 189
SendLoop(r, l) == IF r = 0 /\ l > 0 THEN "buf_sendto" ELSE "buf_ret"

\* pppoat_util_select(max, &rfds, NULL): what it returns and the descriptors it
\* leaves set.  A return of 0 or more is the number of ready descriptors, which
\* are the ones left set (none for 0); after an error any subset of the two
\* may be left set (select() itself leaves both).
SelectOutcomes ==
    {[ret |-> Cardinality(s), set |-> s] : s \in SUBSET {RD, SOCK}}
    \cup {[ret |-> P_ERR(-EBADF), set |-> s] : s \in SUBSET {RD, SOCK}}

\* pppoat_util_select(sock, NULL, &wfds): what it returns with one descriptor
WaitOutcomes == {P_ERR(-EBADF), 0, 1}

\* an outcome of read(), recv() or sendto(): -1 with errno set, or a count;
\* for read() and recv() also the bytes put into the buffer
Fail(e) == [len2 |-> -1, errno |-> e, data |-> <<>>]
Done(n) == [len2 |-> n, errno |-> 0, data |-> <<>>]
Got(d) == [len2 |-> Len(d), errno |-> 0, data |-> d]

\* what read(rd, buf, sizeof(buf)) can do
ReadOutcomes ==
    {Got(d) : d \in Chunks} \cup {Done(0)}
    \cup {Fail(e) : e \in {EINTR, EAGAIN, EWOULDBLOCK, EIO}}

\* what recv(sock, buf, sizeof(buf), 0) can do
RecvOutcomes ==
    {Got(d) : d \in Chunks} \cup {Done(0)}
    \cup {Fail(e) : e \in {EINTR, EAGAIN, EWOULDBLOCK, ECONNREFUSED}}

\* what the call returned, as the log records it
Returned(o) == IF o.len2 < 0 THEN -o.errno ELSE o.len2

\* lines 217-220 without the len == 0 case
ReadRcZeroIgnored(o, r) ==
    IF o.len2 < 0 /\ ~udp_error_is_recoverable(-o.errno)
    THEN P_ERR(-o.errno) ELSE r

\* lines 217-220: rc after a read() that gave o
ReadRc(o, r) ==
    LET r1 == IF o.len2 = 0 THEN P_ERR(-EPIPE) ELSE r
    IN  IF o.len2 < 0 /\ ~udp_error_is_recoverable(-o.errno)
        THEN P_ERR(-o.errno) ELSE r1

\* lines 227-228 with the len == 0 case of line 217 added
RecvRcZeroIsClosure(o, r) ==
    LET r1 == IF o.len2 = 0 THEN P_ERR(-EPIPE) ELSE r
    IN  IF o.len2 < 0 /\ ~udp_error_is_recoverable(-o.errno)
        THEN P_ERR(-o.errno) ELSE r1

\* lines 227-228: rc after a recv() that gave o
RecvRc(o, r) ==
    IF o.len2 < 0 /\ ~udp_error_is_recoverable(-o.errno)
    THEN P_ERR(-o.errno) ELSE r

\* line 204 with the first result not tested
RunNonblockRdUnchecked ==
    /\ pc = "ready"
    /\ \E r \in {0, P_ERR(-EBADF)} :
        /\ rc' = r
        /\ log' = <<Ev("nonblock_rd", r, <<>>, NULL)>>
        /\ nonblock' = IF r = 0 THEN nonblock \cup {RD} ELSE nonblock
        /\ pc' = "run_nonblock_sock"
    /\ retval' = <<>>
    /\ UNCHANGED <<bound, initLocals, ctxFields, userdata, res, rc2, runLocals, sendLocals>>

\* line 204, first operand
RunNonblockRd ==
    /\ pc = "ready"
    /\ \E r \in {0, P_ERR(-EBADF)} :
        /\ rc' = r
        /\ log' = <<Ev("nonblock_rd", r, <<>>, NULL)>>
        /\ nonblock' = IF r = 0 THEN nonblock \cup {RD} ELSE nonblock
        /\ pc' = IF r = 0 THEN "run_nonblock_sock" ELSE "run_ret"
    /\ retval' = <<>>
    /\ UNCHANGED <<bound, initLocals, ctxFields, userdata, res, rc2, runLocals, sendLocals>>

\* line 205, second operand of ?:, and the first test of line 207
RunNonblockSock ==
    /\ pc = "run_nonblock_sock"
    /\ \E r \in {0, P_ERR(-EBADF)} :
        /\ rc' = r
        /\ log' = Append(log, Ev("nonblock_sock", r, <<>>, NULL))
        /\ nonblock' = IF r = 0 THEN nonblock \cup {SOCK} ELSE nonblock
        /\ pc' = LoopTest(r)
    /\ UNCHANGED <<bound, initLocals, ctxFields, userdata, res, rc2, runLocals,
                   sendLocals, retval>>

\* lines 208-215
RunSelect ==
    /\ pc = "run_select"
    /\ iter < MaxIter
    /\ \E o \in SelectOutcomes :
        LET r == IF o.ret > 0 THEN 0 ELSE o.ret IN
        /\ rfds' = o.set
        /\ rc' = r
        /\ log' = <<Ev("select", o.ret, <<>>, NULL)>>
        /\ pc' = LinkBranch(r, o.set)
    /\ iter' = iter + 1
    /\ UNCHANGED <<bound, nonblock, initLocals, ctxFields, userdata, res, rc2, buf, len,
                   sendLocals, retval>>

\* lines 216-222 up to the call of udp_buf_send
RunRead ==
    /\ pc = "run_read"
    /\ \E o \in ReadOutcomes :
        /\ len' = o.len2
        /\ buf' = IF o.len2 > 0 THEN o.data ELSE buf
        /\ log' = Append(log, Ev("read", Returned(o), o.data, NULL))
        /\ rc' = ReadRc(o, rc)
        /\ IF o.len2 > 0
           THEN /\ off' = 0 /\ slen' = o.len2 /\ tries' = 0
                /\ rc2' = 0
                /\ pc' = "buf_sendto"
           ELSE /\ pc' = SockBranch(ReadRc(o, rc), rfds)
                /\ UNCHANGED <<sendLocals, rc2>>
    /\ UNCHANGED <<bound, nonblock, initLocals, ctxFields, userdata, res, rfds, iter, retval>>

\* line 174 without the buf += len2 of line 186
OfferedUnadvanced == SubSeq(buf, 1, slen)

\* the bytes udp_buf_send passes to sendto: len bytes from its buf pointer
Offered == SubSeq(buf, off + 1, off + slen)

\* what sendto() can do with l bytes
SendtoOutcomes(l) ==
    {Done(n) : n \in 1..l} \cup {Fail(EMSGSIZE)}
    \cup (IF tries < MaxTransient
          THEN {Fail(EINTR), Fail(EAGAIN), Fail(EWOULDBLOCK)} ELSE {})

\* line 176 never true
InterruptedNever(o) == FALSE

\* line 176: the sendto was interrupted by a signal
Interrupted(o) == o.len2 < 0 /\ o.errno = EINTR

\* line 180 never true
NeedsWaitNever(o) == FALSE

\* line 180: the sendto failed with a recoverable errno
NeedsWait(o) == o.len2 < 0 /\ udp_error_is_recoverable(-o.errno)

\* lines 173-189, one pass of the loop body up to the wait of line 183
BufSendto ==
    /\ pc = "buf_sendto"
    /\ \E o \in SendtoOutcomes(slen) :
        LET fatal == o.len2 < 0 /\ ~udp_error_is_recoverable(-o.errno)
            r == IF fatal THEN P_ERR(-o.errno) ELSE rc2
        IN
        /\ log' = Append(log, Ev("sendto", Returned(o), Offered, uc_ainfo))
        /\ tries' = IF o.len2 < 0 /\ ~fatal THEN tries + 1 ELSE tries
        /\ IF Interrupted(o)
           THEN /\ pc' = SendLoop(rc2, slen)
                /\ UNCHANGED <<rc2, off, slen>>
           ELSE IF NeedsWait(o)
           THEN /\ pc' = "buf_wait"
                /\ UNCHANGED <<rc2, off, slen>>
           ELSE /\ rc2' = r
                /\ off' = IF o.len2 > 0 THEN off + o.len2 ELSE off
                /\ slen' = IF o.len2 > 0 THEN slen - o.len2 ELSE slen
                /\ pc' = SendLoop(r, IF o.len2 > 0 THEN slen - o.len2 ELSE slen)
    /\ UNCHANGED <<bound, nonblock, initLocals, ctxFields, userdata, res, rc, runLocals, retval>>

\* lines 180-189 after a recoverable failure: the wait, then the loop test
BufWait ==
    /\ pc = "buf_wait"
    /\ \E r \in WaitOutcomes :
        /\ rc2' = r
        /\ log' = Append(log, Ev("wait", r, <<>>, NULL))
        /\ pc' = SendLoop(r, slen)
    /\ UNCHANGED <<bound, nonblock, initLocals, ctxFields, userdata, res, rc, runLocals,
                   sendLocals, retval>>

\* line 191, with line 222 dropping the result
BufRetIgnored ==
    /\ pc = "buf_ret"
    /\ rc' = rc
    /\ pc' = SockBranch(rc, rfds)
    /\ UNCHANGED <<bound, nonblock, initLocals, ctxFields, userdata, res, rc2, runLocals,
                   sendLocals, log, retval>>

\* line 191, and line 222 taking the result
BufRet ==
    /\ pc = "buf_ret"
    /\ rc' = rc2
    /\ pc' = SockBranch(rc2, rfds)
    /\ UNCHANGED <<bound, nonblock, initLocals, ctxFields, userdata, res, rc2, runLocals,
                   sendLocals, log, retval>>

\* lines 226-229, up to the call of pppoat_util_write
RunRecv ==
    /\ pc = "run_recv"
    /\ \E o \in RecvOutcomes :
        /\ len' = o.len2
        /\ buf' = IF o.len2 > 0 THEN o.data ELSE buf
        /\ log' = Append(log, Ev("recv", Returned(o), o.data, NULL))
        /\ rc' = RecvRc(o, rc)
        /\ pc' = IF o.len2 > 0 THEN "run_write" ELSE LoopTest(RecvRc(o, rc))
    /\ UNCHANGED <<bound, nonblock, initLocals, ctxFields, userdata, res, rc2, rfds, iter,
                   sendLocals, retval>>

\* line 230 with the result of pppoat_util_write dropped
RunWriteUnchecked ==
    /\ pc = "run_write"
    /\ \E r \in {0, P_ERR(-ENOSPC)} :
        /\ rc' = rc
        /\ log' = Append(log, Ev("write", r, SubSeq(buf, 1, len), NULL))
        /\ pc' = LoopTest(rc)
    /\ UNCHANGED <<bound, nonblock, initLocals, ctxFields, userdata, res, rc2, runLocals,
                   sendLocals, retval>>

\* line 230: pppoat_util_write gives 0 or an error
RunWrite ==
    /\ pc = "run_write"
    /\ \E r \in {0, P_ERR(-ENOSPC)} :
        /\ rc' = r
        /\ log' = Append(log, Ev("write", r, SubSeq(buf, 1, len), NULL))
        /\ pc' = LoopTest(r)
    /\ UNCHANGED <<bound, nonblock, initLocals, ctxFields, userdata, res, rc2, runLocals,
                   sendLocals, retval>>

\* line 233
RunRet ==
    /\ pc = "run_ret"
    /\ retval' = <<rc>>
    /\ pc' = "ran"
    /\ UNCHANGED <<bound, nonblock, initLocals, ctxFields, userdata, res, rc, rc2, runLocals,
                   sendLocals, log>>

ModuleUdpRun ==
    \/ RunNonblockRd \/ RunNonblockSock \/ RunSelect \/ RunRead \/ BufSendto
    \/ BufWait \/ BufRet \/ RunRecv \/ RunWrite \/ RunRet

(***************************************************************************)
(* module_udp_fini                                                         *)
(***************************************************************************)

\* lines 148-155 without the close() of line 152
ModuleUdpFiniNoClose ==
    /\ pc = "ran"
    /\ userdata = "ctx"
    /\ res' = [res EXCEPT !["remote"].rel = @ + 1,
                          !["ctx"].rel = @ + 1]
    /\ pc' = "finished"
    /\ UNCHANGED <<bound, nonblock, initLocals, ctxFields, userdata, rc, rc2, runLocals,
                   sendLocals, log, retval>>

\* lines 148-155
ModuleUdpFini ==
    /\ pc = "ran"
    /\ userdata = "ctx"
    /\ res' = [res EXCEPT !["socket"].rel = @ + 1,
                          !["remote"].rel = @ + 1,
                          !["ctx"].rel = @ + 1]
    /\ pc' = "finished"
    /\ UNCHANGED <<bound, nonblock, initLocals, ctxFields, userdata, rc, rc2, runLocals,
                   sendLocals, log, retval>>

Next == ModuleUdpInit \/ ModuleUdpRun \/ ModuleUdpFini

Spec == Init /\ [][Next]_vars
(***************************************************************************)
(* Properties                                                              *)
(***************************************************************************)

Last(s) == s[Len(s)]

\* what a call returns when it fails with a recoverable errno
Transient == {-EAGAIN, -EWOULDBLOCK, -EINTR}

IsSendto(e) == e.op = "sendto"
IsAccepted(e) == e.op = "sendto" /\ e.n > 0

\* the sendto calls of the current udp_buf_send
Calls == SelectSeq(log, IsSendto)

\* the bytes of buf accepted by the first i sendto calls of Calls
SentBefore(i) ==
    LET sent[k \in 0..Len(Calls)] ==
            IF k = 0 THEN 0
            ELSE sent[k - 1] + (IF Calls[k].n > 0 THEN Calls[k].n ELSE 0)
    IN  sent[i]

\* the payloads of the datagrams sent: the bytes each successful sendto accepted
Datagrams ==
    LET ok == SelectSeq(log, IsAccepted)
    IN  [i \in 1..Len(ok) |-> SubSeq(ok[i].data, 1, ok[i].n)]

InSend == pc \in {"buf_sendto", "buf_wait", "buf_ret"}
RunOver == pc \in {"run_ret", "ran", "finished"}

\* C1: a sendto that fails with EAGAIN/EWOULDBLOCK never ends run: once the
\* wait on the socket reports it writable, udp_buf_send retries sendto with
\* the same unsent bytes (same position, same length) and run keeps looping.
C1_WouldBlockIsRetried ==
    [][(pc = "buf_wait" /\ Last(log').op = "wait" /\ Last(log').n > 0)
        => (pc' = "buf_sendto" /\ off' = off /\ slen' = slen)]_vars

\* C2: udp_buf_send gives every sendto exactly the not-yet-sent suffix of the
\* buffer, addressed to the context's remote address, and it returns 0 only
\* when the lengths its sendto calls accepted sum to the buffer's length.
C2_SendAllBeforeSuccess ==
    InSend =>
        /\ Len(buf) >= 1
        /\ \A i \in 1..Len(Calls) :
            /\ Calls[i].data = SubSeq(buf, SentBefore(i - 1) + 1, Len(buf))
            /\ Calls[i].to = uc_ainfo /\ uc_ainfo # NULL
        /\ (pc = "buf_ret" /\ rc2 = 0) => SentBefore(Len(Calls)) = Len(buf)

\* udp_buf_send returns 0 after a would-block, an interrupted and a partial send
C2_Witness ==
    /\ pc = "buf_ret" /\ rc2 = 0
    /\ \E i \in 1..Len(Calls) : Calls[i].n = -EAGAIN
    /\ \E i \in 1..Len(Calls) : Calls[i].n = -EINTR
    /\ \E i \in 1..Len(Calls) : Calls[i].n > 0 /\ Calls[i].n < Len(Calls[i].data)

\* C3: a read of zero bytes from the link ends run with -EPIPE; it is the last
\* I/O call run makes (no wait, read, sendto, recv or write follows).
C3_ZeroReadEndsRun ==
    \A i \in 1..Len(log) :
        (log[i].op = "read" /\ log[i].n = 0) =>
            /\ i = Len(log)
            /\ RunOver
            /\ rc = -EPIPE
            /\ (pc # "run_ret" => retval = <<-EPIPE>>)

\* run has returned -EPIPE after a zero read although the socket was ready too
C3_Witness ==
    /\ pc = "ran" /\ retval = <<-EPIPE>>
    /\ Last(log).op = "read" /\ Last(log).n = 0
    /\ SOCK \in rfds

\* C4: when module_udp_init fails, each of the context, the remote address
\* result, the local address result and the socket has been released once if
\* it was acquired and not at all otherwise, and *userdata is unset; nothing
\* is ever acquired or released twice.
C4_InitFailureReleasesAll ==
    /\ \A r \in Resources : res[r].rel <= res[r].acq /\ res[r].acq <= 1
    /\ pc = "init_failed" =>
        /\ \A r \in Resources : res[r].rel = res[r].acq
        /\ userdata = "unset"
        /\ retval[1] < 0

\* init has failed at bind, with every resource acquired before
C4_Witness ==
    /\ pc = "init_failed"
    /\ retval = <<-EADDRINUSE>>
    /\ \A r \in Resources : res[r].acq = 1

\* C5: whatever module_udp_run returns is a negative error code.
C5_RunReturnsNegative ==
    pc = "ran" => retval[1] < 0

\* the concatenation of a sequence of byte strings
Flatten(ss) ==
    LET f[k \in 0..Len(ss)] == IF k = 0 THEN <<>> ELSE f[k - 1] \o ss[k]
    IN  f[Len(ss)]

\* no sendto of the current udp_buf_send accepted less than it was offered
NoPartialSend == \A i \in 1..Len(Calls) : Calls[i].n > 0 => Calls[i].n = Len(Calls[i].data)

\* C6 as stated: every chunk read from the link that udp_buf_send reports sent
\* went out as exactly one datagram whose payload is the chunk, whatever the
\* send outcomes were (partial sends included).
C6_OneDatagramPerChunk ==
    (pc = "buf_ret" /\ rc2 = 0) => Datagrams = <<buf>>

\* C6 amended: every chunk that udp_buf_send reports sent went out as one or
\* more datagrams whose payloads, concatenated in order, are the chunk's bytes;
\* it is exactly one datagram carrying the chunk when no send was partial.
C6_ChunkSentAsDatagrams ==
    (pc = "buf_ret" /\ rc2 = 0) =>
        /\ Len(Datagrams) >= 1
        /\ Flatten(Datagrams) = buf
        /\ NoPartialSend => Datagrams = <<buf>>

\* a two-byte chunk went out as one datagram after a would-block
C6_Witness ==
    /\ pc = "buf_ret" /\ rc2 = 0
    /\ Len(buf) >= 2
    /\ Len(Datagrams) = 1
    /\ \E i \in 1..Len(Calls) : Calls[i].n = -EAGAIN

\* between module_udp_init handing out the context and module_udp_run returning
AfterInit ==
    pc \in {"ready", "run_nonblock_sock", "run_select", "run_read", "buf_sendto",
            "buf_wait", "buf_ret", "run_recv", "run_write", "run_ret", "ran"}

\* C7: from a successful init until fini, run included, the socket, the remote
\* address result and the context are held and none has been released; after
\* fini each has been released exactly once.
C7_FiniReleasesOnce ==
    /\ AfterInit =>
        \A r \in {"socket", "remote", "ctx"} : res[r] = [acq |-> 1, rel |-> 0]
    /\ pc = "finished" =>
        \A r \in {"socket", "remote", "ctx"} : res[r] = [acq |-> 1, rel |-> 1]

\* fini has run after a run that ended with a failed write to the link
C7_Witness ==
    /\ pc = "finished"
    /\ retval = <<-ENOSPC>>
    /\ Last(log).op = "write"

\* C8: a context is handed out (*userdata set, 0 returned) only with a
\* non-empty remote address and an open, bound socket, the only socket ever
\* created, the local address result already released; this stays so until fini.
C8_ContextHandedOutComplete ==
    /\ (userdata = "ctx" /\ pc # "finished") =>
        /\ Len(uc_ainfo) >= 1 /\ Held("remote")
        /\ uc_sock = "fd" /\ bound /\ Held("socket")
        /\ res["socket"].acq = 1
        /\ res["local"] = [acq |-> 1, rel |-> 1]
        /\ Held("ctx")
    /\ pc = "ready" => (retval = <<0>> /\ userdata = "ctx")
    /\ AfterInit => userdata = "ctx"

\* the context is in use by a run that is about to write to the link
C8_Witness ==
    /\ pc = "run_write"
    /\ userdata = "ctx"

\* C9: a read or recv that fails with EAGAIN, EWOULDBLOCK or EINTR forwards
\* nothing (no sendto follows the read, no write follows the recv) and does not
\* end run: run goes on to the socket branch or back to the readiness wait, and
\* returns after it only if the wait of that iteration had failed, with the
\* wait's error.
C9_TransientReadRecvAbsorbed ==
    \A i \in 1..Len(log) :
        (log[i].op \in {"read", "recv"} /\ log[i].n \in Transient) =>
            /\ i < Len(log) => (log[i].op = "read" /\ log[i + 1].op = "recv")
            /\ i = Len(log) =>
                \/ pc = "run_select" /\ rc = 0
                \/ pc = "run_recv" /\ rc = 0 /\ log[i].op = "read"
                \/ /\ RunOver
                   /\ log[1].op = "select" /\ log[1].n < 0
                   /\ rc = log[1].n
                   /\ (pc # "run_ret" => retval = <<log[1].n>>)

\* read and recv both failed transiently in one iteration; run is back at the wait
C9_Witness ==
    /\ pc = "run_select" /\ rc = 0
    /\ Len(log) = 3
    /\ log[2].op = "read" /\ log[2].n = -EAGAIN
    /\ log[3].op = "recv" /\ log[3].n = -EINTR

\* C10: a true "server" option ("true", "1") selects the master endpoints: bind
\* port 0xc001, send to the slave's host on port 0xc001; a false ("false", "0")
\* or absent option selects the slave endpoints: bind port 0xc001, send to the
\* master's host on port 0xc001.  The context's remote address is that of the
\* selected role.
C10_RoleSelection ==
    /\ pc \in {"init_alloc", "init_ainfo"} =>
        /\ opt \in {"true", "1"} =>
            /\ type = PPPOAT_NODE_MASTER
            /\ <<sport, dhost, dport>> = <<49153, "192.168.4.10", 49153>>
        /\ opt \in {"false", "0", "absent"} =>
            /\ type = PPPOAT_NODE_SLAVE
            /\ <<sport, dhost, dport>> = <<49153, "192.168.4.1", 49153>>
    /\ AfterInit =>
        /\ uc_type = PPPOAT_NODE_MASTER =>
            uc_ainfo = <<[host |-> "192.168.4.10", port |-> 49153]>>
        /\ uc_type = PPPOAT_NODE_SLAVE =>
            uc_ainfo = <<[host |-> "192.168.4.1", port |-> 49153]>>

\* the option "1" has selected the master endpoints
C10_Witness ==
    /\ pc = "init_alloc"
    /\ opt = "1"
    /\ type = PPPOAT_NODE_MASTER

\* the current iteration began with a readiness wait that failed
WaitFailed == Len(log) >= 1 /\ log[1].op = "select" /\ log[1].n < 0

\* C11: when the readiness wait of the main loop fails, run ends returning the
\* wait's error: no read, send, recv or write of that iteration overwrites it
\* and no further iteration starts.
C11_WaitErrorReturned ==
    WaitFailed =>
        /\ rc = log[1].n
        /\ pc # "run_select"
        /\ pc \in {"ran", "finished"} => retval = <<log[1].n>>

\* the positive-length reads of the current iteration
IsChunkRead(e) == e.op = "read" /\ e.n > 0

\* C12: no read from the link happens while bytes of an earlier chunk are
\* unsent: outside udp_buf_send the loop goes on only with every byte of the
\* chunk accepted by sendto; with bytes left unsent run is over, its rc not 0.
C12_NoReadWhileUnsent ==
    /\ pc \in {"run_select", "run_read", "run_recv", "run_write"} =>
        /\ slen = 0
        /\ \A i \in 1..Len(log) :
            IsChunkRead(log[i]) => SentBefore(Len(Calls)) = log[i].n
    /\ (AfterInit /\ ~InSend /\ slen > 0) =>
        /\ RunOver
        /\ rc # 0
        /\ pc \in {"ran", "finished"} => retval # <<0>>

\* the second read is about to happen after a two-byte chunk went out in full,
\* one sendto having failed transiently
C12_Witness ==
    /\ pc = "run_read"
    /\ iter >= 2
    /\ off >= 2 /\ slen = 0
    /\ tries >= 1

\* C13: a sendto that fails with EINTR is followed at once by another sendto
\* of the same bytes (same position, same length): no wait in between, no
\* error returned, however many EINTR follow one another.
C13_EintrRetriedAtOnce ==
    \A i \in 1..Len(log) :
        (log[i].op = "sendto" /\ log[i].n = -EINTR) =>
            /\ i < Len(log) =>
                (log[i + 1].op = "sendto" /\ log[i + 1].data = log[i].data)
            /\ i = Len(log) =>
                (pc = "buf_sendto" /\ rc2 = 0 /\ Offered = log[i].data)

\* two EINTR in a row and then a sendto that took bytes
C13_Witness ==
    \E i \in 1..Len(log) :
        /\ i + 2 <= Len(log)
        /\ log[i].op = "sendto" /\ log[i].n = -EINTR
        /\ log[i + 1].op = "sendto" /\ log[i + 1].n = -EINTR
        /\ log[i + 2].op = "sendto" /\ log[i + 2].n > 0

\* C14: a sendto that fails with any other errno is the last call of
\* udp_buf_send, which returns that error whatever was sent before; run then
\* returns the same error without a recv or a write.
C14_FatalSendEndsRun ==
    \A i \in 1..Len(log) :
        (log[i].op = "sendto" /\ log[i].n < 0 /\ log[i].n \notin Transient) =>
            /\ i = Len(log)
            /\ \/ pc = "buf_ret" /\ rc2 = log[i].n
               \/ RunOver /\ rc = log[i].n
            /\ pc \in {"ran", "finished"} => retval = <<log[i].n>>

\* run has returned the error of a sendto that followed a partial send, the
\* socket having been ready as well
C14_Witness ==
    /\ pc = "ran" /\ retval = <<-EMSGSIZE>>
    /\ SOCK \in rfds
    /\ Len(Calls) >= 2 /\ Calls[1].n > 0
    /\ Last(log).op = "sendto"

\* a call whose outcome the design takes as fatal
FatalEvent(e) ==
    \/ e.op \in {"select", "wait", "write"} /\ e.n < 0
    \/ e.op = "read" /\ (e.n = 0 \/ (e.n < 0 /\ e.n \notin Transient))
    \/ e.op \in {"sendto", "recv"} /\ e.n < 0 /\ e.n \notin Transient

HasRecv == \E i \in 1..Len(log) : log[i].op = "recv"

\* C15: in an iteration the link branch (read, sendto, wait) comes before the
\* socket branch (recv, write); the socket branch runs only if nothing fatal
\* has happened in that iteration; and with both descriptors reported ready
\* and no error left by the link branch, the iteration services both.
C15_LinkThenSocketUnlessFatal ==
    /\ \A i, j \in 1..Len(log) :
        (log[i].op \in {"recv", "write"} /\ log[j].op \in {"read", "sendto", "wait"})
            => j < i
    /\ \A i \in 1..Len(log) :
        log[i].op = "recv" => \A j \in 1..(i - 1) : ~FatalEvent(log[j])
    /\ (/\ Len(log) >= 1 /\ log[1].op = "select" /\ log[1].n = 2
        /\ pc \in {"run_select", "run_ret", "ran", "finished"}
        /\ rc = 0)
        => HasRecv

\* C16: a recv that gave bytes is followed, before the next readiness wait, by
\* one write of exactly those bytes to the link; the loop goes on if the write
\* succeeded, and run returns the write's error if it failed.
C16_ReceivedBytesWritten ==
    \A i \in 1..Len(log) :
        (log[i].op = "recv" /\ log[i].n > 0) =>
            \/ /\ i = Len(log)
               /\ pc = "run_write"
               /\ SubSeq(buf, 1, len) = log[i].data
            \/ /\ i + 1 = Len(log)
               /\ log[i + 1].op = "write"
               /\ log[i + 1].data = log[i].data
               /\ log[i + 1].n = 0 => (pc = "run_select" /\ rc = 0)
               /\ log[i + 1].n # 0 => (RunOver /\ rc = log[i + 1].n)
               /\ pc \in {"ran", "finished"} => retval = <<log[i + 1].n>>

\* run returned the error of the write of a two-byte datagram, in an iteration
\* that had used the buffer for a chunk from the link before
C16_Witness ==
    /\ pc = "ran" /\ retval = <<-ENOSPC>>
    /\ Last(log).op = "write" /\ Len(Last(log).data) = 2
    /\ \E i \in 1..Len(log) : IsChunkRead(log[i])

\* module_udp_run as a running thread: a sendto or a wait that is due is made,
\* and returns
FairSpec == Spec /\ WF_<<pc, log>>(BufSendto) /\ WF_<<pc, log>>(BufWait)

\* C17: udp_buf_send, once entered, comes to its return (every wait returns,
\* and transient failures are finitely many), and a sendto that would block is
\* never followed by another sendto without a readiness wait in between.
C17_SendTerminatesWaitsBetween ==
    /\ [](\A i \in 1..Len(log) :
            (log[i].op = "sendto" /\ log[i].n = -EAGAIN) =>
                IF i = Len(log) THEN pc = "buf_wait" ELSE log[i + 1].op = "wait")
    /\ (pc = "buf_sendto") ~> (pc = "buf_ret")

\* udp_buf_send is at its return with 0 after a sendto that would block, the
\* wait, and a sendto that took the rest
C17_Witness ==
    /\ pc = "buf_ret" /\ rc2 = 0 /\ slen = 0
    /\ \E i \in 1..(Len(log) - 2) :
        /\ log[i].op = "sendto" /\ log[i].n = -EAGAIN
        /\ log[i + 1].op = "wait" /\ log[i + 1].n = 0
        /\ log[i + 2].op = "sendto" /\ log[i + 2].n > 0

\* the calls that only the loop makes
LoopOps == {"select", "read", "sendto", "wait", "recv", "write"}

\* C18: the link descriptor is set non-blocking first, the socket second, and
\* the loop (and so every wait, read, sendto, recv and write) starts only with
\* both set; if either call fails run returns its error with none of these
\* calls made.
C18_NonblockBeforeLoop ==
    /\ SOCK \in nonblock => RD \in nonblock
    /\ (\/ pc \in {"run_select", "run_read", "buf_sendto", "buf_wait", "buf_ret",
                   "run_recv", "run_write"}
        \/ \E i \in 1..Len(log) : log[i].op \in LoopOps)
        => nonblock = {RD, SOCK}
    /\ (AfterInit /\ pc # "ready" /\ nonblock # {RD, SOCK}) =>
        /\ iter = 0
        /\ \/ pc = "run_nonblock_sock" /\ nonblock = {RD} /\ Len(log) = 1
           \/ /\ RunOver
              /\ Last(log).op \in {"nonblock_rd", "nonblock_sock"}
              /\ Last(log).n < 0
              /\ rc = Last(log).n
              /\ pc = "ran" => retval = <<Last(log).n>>
              /\ Last(log).op = "nonblock_rd" => (Len(log) = 1 /\ nonblock = {})
              /\ Last(log).op = "nonblock_sock" => (Len(log) = 2 /\ nonblock = {RD})

\* run returned the error of setting the socket non-blocking
C18_Witness ==
    /\ pc = "ran" /\ retval = <<-EBADF>>
    /\ Len(log) = 2 /\ log[2].op = "nonblock_sock"
    /\ nonblock = {RD}

\* C19: a recv of zero bytes is not an end of the link: nothing is written,
\* rc stays 0 and run is back at the readiness wait.
C19_EmptyDatagramIgnored ==
    \A i \in 1..Len(log) :
        (log[i].op = "recv" /\ log[i].n = 0) =>
            /\ i = Len(log)
            /\ pc = "run_select"
            /\ rc = 0

\* an empty datagram came in the first iteration; run is at the wait again
C19_Witness ==
    /\ pc = "run_select" /\ rc = 0
    /\ iter = 1
    /\ Last(log).op = "recv" /\ Last(log).n = 0
====
